---- MODULE Spec2Model ----
(***************************************************************************)
(* Message board: the four server variants of the repository               *)
(*   part_000   in-memory store, numeric ids      (src/unnamed/part_000)   *)
(*   part_002   in-memory store, Date.now() ids   (src/unnamed/part_002)   *)
(*   part_001   MongoDB store, isConnected flag   (src/unnamed/part_001)   *)
(*   server_js  MongoDB store, cached connection  (src/backend/server.js)  *)
(* One behaviour is one server process of one variant handling requests    *)
(* one after the other.                                                    *)
(*                                                                         *)
(* JavaScript values are records [t, v]: t is the type tag and v the       *)
(* payload.  Strings are sequences of one-character strings, so trimming,  *)
(* parsing and formatting are computed, not assumed.  A Date is the number *)
(* of milliseconds it holds.                                               *)
(***************************************************************************)
EXTENDS Integers, Sequences, FiniteSets, TLC

\* ------------------------------------------------------------------ bounds
\* successful creates in one behaviour
MaxCreates == 1
\* milliseconds the clock may advance in one behaviour
MaxTicks == 1
\* Date.now() when the process starts
Epoch == 1000
\* the counter part of the first ObjectId the database hands out
OidBase == 10

\* ------------------------------------------------------- program constants
\* messageSchema.text.maxlength
MaxTextLength == 500
\* messageSchema.text.minlength
MinTextLength == 1
\* Message.find().limit(100)
ListLimit == 100
\* mongoose.connection.readyState of a live connection (0 is disconnected)
Connected == 1

\* ------------------------------------------------------------------ values
Undefined == [t |-> "undefined", v |-> <<>>]
NaN == [t |-> "NaN", v |-> <<>>]
Str(s) == [t |-> "string", v |-> s]
Num(n) == [t |-> "number", v |-> n]
ObjectId(n) == [t |-> "ObjectId", v |-> n]

\* a === b: same type and same value; NaN equals nothing
StrictEq(a, b) == a.t = b.t /\ a.t # "NaN" /\ a.v = b.v

\* !x is ~Truthy(x)
Truthy(x) ==
  CASE x.t = "undefined" -> FALSE
    [] x.t = "NaN" -> FALSE
    [] x.t = "string" -> x.v # <<>>
    [] x.t = "number" -> x.v # 0
    [] OTHER -> TRUE

TypeOf(x) == IF x.t = "NaN" THEN "number" ELSE x.t

\* ----------------------------------------------------------------- strings
SetMin(S) == CHOOSE x \in S : \A y \in S : x <= y

Rep(c, n) == [i \in 1..n |-> c]

IsWhite(c) == c \in {" ", "\t", "\n", "\r"}

RECURSIVE TrimStart(_)
\* String.prototype.trimStart
TrimStart(s) == IF s # <<>> /\ IsWhite(Head(s)) THEN TrimStart(Tail(s)) ELSE s

RECURSIVE TrimEnd(_)
\* String.prototype.trimEnd
TrimEnd(s) == IF s # <<>> /\ IsWhite(s[Len(s)]) THEN TrimEnd(SubSeq(s, 1, Len(s) - 1)) ELSE s

\* String.prototype.trim
Trim(s) == TrimEnd(TrimStart(s))

\* String.prototype.includes
Includes(s, sub) ==
  \E i \in 1..(Len(s) + 1) : i + Len(sub) - 1 <= Len(s) /\ SubSeq(s, i, i + Len(sub) - 1) = sub

DecDigits == <<"0", "1", "2", "3", "4", "5", "6", "7", "8", "9">>
HexDigits == DecDigits \o <<"a", "b", "c", "d", "e", "f">>
UpperHex == <<"A", "B", "C", "D", "E", "F">>

\* the characters that are digits in some radix up to 16, of either case
HexChars == {HexDigits[i] : i \in 1..16} \cup {UpperHex[i] : i \in 1..6}

\* the value of each of them
HexValue ==
  [c \in HexChars |->
     IF \E i \in 1..16 : HexDigits[i] = c
     THEN (CHOOSE i \in 1..16 : HexDigits[i] = c) - 1
     ELSE (CHOOSE i \in 1..6 : UpperHex[i] = c) + 9]

\* the value of c as a digit, -1 if it is none
DigitValue(c) == IF c \in HexChars THEN HexValue[c] ELSE -1

IsDigit(c, radix) == c \in HexChars /\ HexValue[c] < radix

\* the digits of a natural number, most significant first
RECURSIVE Digits(_, _)
Digits(n, radix) ==
  IF n < radix THEN <<HexDigits[n + 1]>>
  ELSE Digits(n \div radix, radix) \o <<HexDigits[(n % radix) + 1]>>

\* Number.prototype.toString of an integer
NumToStr(n) == IF n < 0 THEN <<"-">> \o Digits(-n, 10) ELSE Digits(n, 10)

\* the number the digits of s from position i on spell in the radix, up to the
\* first character that is no digit; acc is the value so far
RECURSIVE ParseDigits(_, _, _, _)
ParseDigits(s, i, radix, acc) ==
  IF i > Len(s) \/ ~IsDigit(s[i], radix) THEN acc
  ELSE ParseDigits(s, i + 1, radix, acc * radix + HexValue[s[i]])

\* parseInt(s) with no radix argument: leading white space is skipped, a sign
\* is read, a 0x prefix selects radix 16, the longest prefix of digits is the
\* value and whatever follows is ignored; NaN when there is no digit
ParseInt(s) ==
  LET a == TrimStart(s)
      neg == a # <<>> /\ Head(a) = "-"
      b == IF a # <<>> /\ Head(a) \in {"-", "+"} THEN Tail(a) ELSE a
      hex == Len(b) >= 2 /\ b[1] = "0" /\ b[2] \in {"x", "X"}
      c == IF hex THEN SubSeq(b, 3, Len(b)) ELSE b
      radix == IF hex THEN 16 ELSE 10
  IN IF c = <<>> \/ ~IsDigit(Head(c), radix) THEN NaN
     ELSE Num((IF neg THEN -1 ELSE 1) * ParseDigits(c, 1, radix, 0))

\* --------------------------------------------------------------- ObjectId
\* ObjectId.prototype.toHexString: 24 lower-case hexadecimal digits
OidToHex(n) == Rep("0", 24 - Len(Digits(n, 16))) \o Digits(n, 16)

\* mongoose.Types.ObjectId.isValid of a string: 24 hexadecimal digits of
\* either case, or any 12 characters
IsValidObjectId(s) ==
  \/ Len(s) = 24 /\ \A i \in 1..24 : IsDigit(s[i], 16)
  \/ Len(s) = 12

\* the ObjectId a valid string is cast to: 24 digits are read as hexadecimal
\* whatever their case; 12 characters are taken as the 12 bytes, which no
\* generated id consists of
CastObjectId(s) == IF Len(s) = 24 THEN ObjectId(ParseDigits(s, 1, 16, 0)) ELSE ObjectId(-1)

\* String.prototype.toUpperCase on hexadecimal digits
ToUpper(s) ==
  [i \in 1..Len(s) |->
     IF DigitValue(s[i]) >= 10 /\ DigitValue(s[i]) < 16 THEN UpperHex[DigitValue(s[i]) - 9] ELSE s[i]]

\* ---------------------------------------------------------------- messages
Variants == {"part_000", "part_002", "part_001", "server_js"}
InMemory == {"part_000", "part_002"}
Mongo == {"part_001", "server_js"}

\* { id, text, timestamp }
Message000(id, text, ts) == [id |-> id, text |-> text, timestamp |-> ts]
\* { _id, text, timestamp }
Message002(id, text, ts) == ("_id" :> id) @@ [text |-> text, timestamp |-> ts]
\* a saved mongoose document: _id, text, timestamp and the version key
Document(oid, text, ts) == ("_id" :> oid) @@ ("__v" :> Num(0)) @@ [text |-> text, timestamp |-> ts]

\* JSON.stringify of a message: an ObjectId becomes its hexadecimal string
ToJSON(m) ==
  IF "_id" \in DOMAIN m /\ m["_id"].t = "ObjectId"
  THEN [m EXCEPT !["_id"] = Str(OidToHex(m["_id"].v))]
  ELSE m

JSONList(ms) == [i \in 1..Len(ms) |-> ToJSON(ms[i])]

\* the stored identifier of a message, under whichever name the variant uses
IdOf(m) == IF "id" \in DOMAIN m THEN m.id ELSE m["_id"]

\* the text an identifier becomes in a URL
WireId(x) ==
  CASE x.t = "number" -> NumToStr(x.v)
    [] x.t = "string" -> x.v
    [] x.t = "ObjectId" -> OidToHex(x.v)
    [] OTHER -> <<"u", "n", "d", "e", "f", "i", "n", "e", "d">>

WelcomeFirst == <<"W", "e", "l", "c", "o", "m", "e", " ", "t", "o", " ", "y", "o", "u", "r", " ", "f", "i", "r", "s", "t", " ", "f", "u", "l", "l", "-", "s", "t", "a", "c", "k", " ", "a", "p", "p", "!">>
PoweredBy == <<"T", "h", "i", "s", " ", "i", "s", " ", "p", "o", "w", "e", "r", "e", "d", " ", "b", "y", " ", "E", "x", "p", "r", "e", "s", "s", " ", "b", "a", "c", "k", "e", "n", "d">>
WelcomeBoard == <<"W", "e", "l", "c", "o", "m", "e", " ", "t", "o", " ", "y", "o", "u", "r", " ", "m", "e", "s", "s", "a", "g", "e", " ", "b", "o", "a", "r", "d", "!">>
\* two UTF-16 units stand for the emoji that ends the text
WelcomeAtlas == <<"W", "e", "l", "c", "o", "m", "e", " ", "t", "o", " ", "t", "h", "e", " ", "M", "e", "s", "s", "a", "g", "e", " ", "B", "o", "a", "r", "d", "!", " ">> \o <<"hs", "ls">>

\* let messages = [...] of part_000
Seed000(now) ==
  << Message000(Num(1), Str(WelcomeFirst), now), Message000(Num(2), Str(PoweredBy), now) >>
\* let messages = [...] of part_002
Seed002(now) ==
  << Message002(Str(<<"1">>), Str(WelcomeBoard), now), Message002(Str(<<"2">>), Str(PoweredBy), now) >>

Seeds(v, now) ==
  CASE v = "part_000" -> Seed000(now)
    [] v = "part_002" -> Seed002(now)
    [] OTHER -> <<>>

\* ------------------------------------------------------------------- state
VARIABLES
  variant,      \* which server file this process runs
  MONGODB_URI,  \* whether the connection string is configured
  messages,     \* the store: the array of the in-memory variants, the collection of the others
  clock,        \* Date.now()
  nextOid,      \* the counter of the next ObjectId the database generates
  cachedDb,     \* server_js: the cached connection handle, or "null"
  readyState,   \* mongoose.connection.readyState
  isConnected,  \* part_001: the connected flag
  initialized,  \* server_js: initializeDatabase has run
  last,         \* the request handled last and its response
  issued,       \* history: every identifier assigned so far, in order
  created,      \* history: the identifiers returned by successful create requests, in order
  removed,      \* history: created identifiers X for which DELETE /api/messages/X succeeded
  anyCreate,    \* history: a create request has been made
  appMessages,  \* App.jsx: the messages state of the component
  draft,        \* App.jsx: newMessage, the draft text
  loading,      \* App.jsx: the loading state
  error,        \* App.jsx: the error state
  inflight,     \* App.jsx: the requests of the component that await their response
  course,       \* history: whether a request of the component has failed
  calls,        \* server_js: where each concurrent invocation of connectDB stands
  FRONTEND_URL, \* server_js: process.env.FRONTEND_URL
  answered      \* server_js: the request that came through the middleware last, and its response

vars ==
  << variant, MONGODB_URI, messages, clock, nextOid, cachedDb, readyState, isConnected,
     initialized, last, issued, created, removed, anyCreate,
     appMessages, draft, loading, error, inflight, course, calls, FRONTEND_URL, answered >>

\* the state of the component
app == << appMessages, draft, loading, error, inflight, course >>

\* what the request handling of a server process on its own leaves alone
outside == << app, calls, FRONTEND_URL, answered >>

store == << messages, nextOid >>
connection == << cachedDb, readyState, isConnected >>

\* --------------------------------------------------------------- responses
\* res.status(status).json(...): kind says what the JSON is, body holds its messages
Reply(status, kind, body) == [status |-> status, kind |-> kind, body |-> body]

\* what a handler of an in-memory variant leaves behind: its response and the
\* store; it has no connection to attempt or to miss
Outcome(reply, ms) == [reply |-> reply, store |-> ms, attempted |-> FALSE, unavailable |-> FALSE]

\* Array.prototype.findIndex with msg => msg[field] === id: the 0-based index
\* of the first match, -1 when there is none
FindIndex(ms, field, id) ==
  LET hits == {i \in 1..Len(ms) : StrictEq(ms[i][field], id)}
  IN IF hits = {} THEN -1 ELSE SetMin(hits) - 1

\* messages.splice(index, 1) with a 0-based index
Splice(ms, index) == SubSeq(ms, 1, index) \o SubSeq(ms, index + 2, Len(ms))

\* ---------------------------------------------------------------- part_000
\* app.get('/api/messages')
Get000(ms) == Outcome(Reply(200, "array", JSONList(ms)), ms)

\* id: messages.length + 1
NewId000(ms) == Num(Len(ms) + 1)

\* app.post('/api/messages')
Post000(ms, text, now) ==
  IF ~Truthy(text) THEN Outcome(Reply(400, "error", <<>>), ms)
  ELSE LET newMessage == Message000(NewId000(ms), text, now)
       IN Outcome(Reply(201, "object", <<ToJSON(newMessage)>>), Append(ms, newMessage))

\* app.delete('/api/messages/:id')
Delete000(ms, param) ==
  LET id == ParseInt(param)
      index == FindIndex(ms, "id", id)
  IN IF index = -1 THEN Outcome(Reply(404, "error", <<>>), ms)
     ELSE Outcome(Reply(200, "ok", <<>>), Splice(ms, index))

\* ---------------------------------------------------------------- part_002
\* app.get('/api/messages')
Get002(ms) == Outcome(Reply(200, "array", JSONList(ms)), ms)

\* _id: Date.now().toString()
NewId002(now) == Str(NumToStr(now))

\* app.post('/api/messages')
Post002(ms, text, now) ==
  IF ~Truthy(text) THEN Outcome(Reply(400, "error", <<>>), ms)
  ELSE LET newMessage == Message002(NewId002(now), text, now)
       IN Outcome(Reply(201, "object", <<ToJSON(newMessage)>>), Append(ms, newMessage))

\* app.delete('/api/messages/:id')
Delete002(ms, param) ==
  LET id == Str(param)
      index == FindIndex(ms, "_id", id)
  IN IF index = -1 THEN Outcome(Reply(404, "error", <<>>), ms)
     ELSE Outcome(Reply(200, "ok", <<>>), Splice(ms, index))

\* -------------------------------------------------------------- connection
\* the connection state of the process
Conn(cached, ready, flag) == [cachedDb |-> cached, readyState |-> ready, isConnected |-> flag]

\* what connectDB leaves behind: whether it threw and the error's name, the
\* connection state, and whether mongoose.connect was called
Connect(threw, name, conn, attempted) ==
  [threw |-> threw, name |-> name, conn |-> conn, attempted |-> attempted]

MongooseServerSelectionError == <<"M", "o", "n", "g", "o", "o", "s", "e", "S", "e", "r", "v", "e", "r", "S", "e", "l", "e", "c", "t", "i", "o", "n", "E", "r", "r", "o", "r">>
MongoNetworkError == <<"M", "o", "n", "g", "o", "N", "e", "t", "w", "o", "r", "k", "E", "r", "r", "o", "r">>
PlainError == <<"E", "r", "r", "o", "r">>
ValidationError == <<"V", "a", "l", "i", "d", "a", "t", "i", "o", "n", "E", "r", "r", "o", "r">>

\* how mongoose.connect ends: resolved, or rejected with an error of some name
\* (server selection timed out; the DNS lookup of the host failed)
ConnectOutcomes ==
  { [ok |-> TRUE, name |-> <<>>],
    [ok |-> FALSE, name |-> MongooseServerSelectionError],
    [ok |-> FALSE, name |-> PlainError] }

\* part_001 connectDB
ConnectDB001(c, outcome) ==
  IF c.isConnected THEN Connect(FALSE, <<>>, c, FALSE)
  ELSE IF outcome.ok
       THEN Connect(FALSE, <<>>, [c EXCEPT !.isConnected = TRUE, !.readyState = Connected], TRUE)
       ELSE Connect(TRUE, outcome.name, [c EXCEPT !.readyState = 0], TRUE)

\* connectDB without its test of the cached handle: every call connects anew
ConnectDBUncached(c, uri, outcome) ==
  IF ~uri THEN Connect(TRUE, PlainError, c, FALSE)
  ELSE IF outcome.ok
       THEN Connect(FALSE, <<>>, [c EXCEPT !.cachedDb = "mongoose", !.readyState = Connected], TRUE)
       ELSE Connect(TRUE, outcome.name, [c EXCEPT !.cachedDb = "null", !.readyState = 0], TRUE)

\* connectDB without its test of MONGODB_URI: it connects with no connection string
ConnectDBUnconfigured(c, uri, outcome) ==
  IF c.cachedDb # "null" /\ c.readyState = Connected THEN Connect(FALSE, <<>>, c, FALSE)
  ELSE IF outcome.ok
       THEN Connect(FALSE, <<>>, [c EXCEPT !.cachedDb = "mongoose", !.readyState = Connected], TRUE)
       ELSE Connect(TRUE, outcome.name, [c EXCEPT !.cachedDb = "null", !.readyState = 0], TRUE)

\* server_js connectDB
ConnectDB(c, uri, outcome) ==
  IF c.cachedDb # "null" /\ c.readyState = Connected THEN Connect(FALSE, <<>>, c, FALSE)
  ELSE IF ~uri THEN Connect(TRUE, PlainError, c, FALSE)
  ELSE IF outcome.ok
       THEN Connect(FALSE, <<>>, [c EXCEPT !.cachedDb = "mongoose", !.readyState = Connected], TRUE)
       ELSE Connect(TRUE, outcome.name, [c EXCEPT !.cachedDb = "null", !.readyState = 0], TRUE)

\* a database operation completes when the connection is live; on a lost
\* connection it is buffered and fails with an error of the driver
Completes(c) == c.readyState = Connected

\* what a handler of a database variant leaves behind: its response, the
\* collection, the connection state, whether mongoose.connect was called, and
\* whether connectDB left the handler without a live connection
DbOutcome(reply, ms, k) ==
  [reply |-> reply, store |-> ms, conn |-> k.conn, attempted |-> k.attempted,
   unavailable |-> (k.threw \/ k.conn.readyState # Connected)]

\* req.params.id of the database variants: the identifiers in use, one of them
\* in upper case, and what a client sends that finds no id field
ParamsMongo ==
  {OidToHex(OidBase + k) : k \in 0..MaxCreates}
    \cup { ToUpper(OidToHex(OidBase)), WireId(Undefined) }

\* isValid and the cast of each of these parameters, computed once
IsValidParam == [p \in ParamsMongo |-> IsValidObjectId(p)]
CastParam == [p \in {q \in ParamsMongo : IsValidObjectId(q)} |-> CastObjectId(p)]

\* ------------------------------------------------------------- collection
RECURSIVE Orders(_)
\* every order of the elements of a sequence
Orders(ms) ==
  IF ms = <<>> THEN {<<>>}
  ELSE UNION {{<<ms[i]>> \o p : p \in Orders(SubSeq(ms, 1, i - 1) \o SubSeq(ms, i + 1, Len(ms)))} :
              i \in 1..Len(ms)}

IsDescending(ms) == \A i \in 1..(Len(ms) - 1) : ms[i].timestamp >= ms[i + 1].timestamp

\* .sort({ timestamp: -1 }): the documents by descending timestamp; the order
\* of documents with equal timestamps is the database's choice
SortDescending(ms) == {p \in Orders(ms) : IsDescending(p)}

\* .limit(n)
Limit(ms, n) == SubSeq(ms, 1, IF Len(ms) < n THEN Len(ms) ELSE n)

\* ---------------------------------------------------------------- part_001
\* app.get('/api/messages')
Get001(ms, c, outcome, sorted) ==
  LET k == ConnectDB001(c, outcome)
  IN IF k.threw \/ ~Completes(k.conn) THEN DbOutcome(Reply(500, "error", <<>>), ms, k)
     ELSE DbOutcome(Reply(200, "array", JSONList(sorted)), ms, k)

\* the String cast of the schema
CastString(text) == IF text.t = "number" THEN Str(NumToStr(text.v)) ELSE text

\* app.post('/api/messages')
Post001(ms, c, outcome, text, now, oid) ==
  LET k == ConnectDB001(c, outcome)
  IN IF k.threw THEN DbOutcome(Reply(500, "error", <<>>), ms, k)
     ELSE IF ~Truthy(text) THEN DbOutcome(Reply(400, "error", <<>>), ms, k)
     ELSE IF ~Completes(k.conn) THEN DbOutcome(Reply(500, "error", <<>>), ms, k)
     ELSE LET newMessage == Document(ObjectId(oid), CastString(text), now)
          IN DbOutcome(Reply(201, "object", <<ToJSON(newMessage)>>), Append(ms, newMessage), k)

\* app.delete('/api/messages/:id'): findByIdAndDelete throws on an id that cannot be
\* cast, and otherwise removes the first document of that _id, if any
Delete001(ms, c, outcome, param) ==
  LET k == ConnectDB001(c, outcome)
  IN IF k.threw \/ ~IsValidParam[param] \/ ~Completes(k.conn)
     THEN DbOutcome(Reply(500, "error", <<>>), ms, k)
     ELSE LET result == FindIndex(ms, "_id", CastParam[param])
          IN IF result = -1
             THEN DbOutcome(Reply(404, "error", <<>>), ms, k)
             ELSE DbOutcome(Reply(200, "ok", <<>>), Splice(ms, result), k)

\* --------------------------------------------------------------- server_js
\* app.get('/api/messages') without its check of the configuration: connectDB is
\* called whatever MONGODB_URI is
GetMessagesUnguarded(ms, c, uri, outcome, sorted) ==
  LET k == ConnectDB(c, uri, outcome)
  IN IF k.threw
     THEN IF Includes(k.name, <<"M", "o", "n", "g", "o">>)
          THEN DbOutcome(Reply(200, "array", <<>>), ms, k)
          ELSE DbOutcome(Reply(500, "error", <<>>), ms, k)
     ELSE DbOutcome(Reply(200, "array", JSONList(Limit(sorted, ListLimit))), ms, k)

\* app.get('/api/messages')
GetMessages(ms, c, uri, outcome, sorted) ==
  LET k == ConnectDB(c, uri, outcome)
  IN IF ~uri THEN DbOutcome(Reply(503, "error", <<>>), ms, Connect(FALSE, <<>>, c, FALSE))
     ELSE IF k.threw
          THEN IF Includes(k.name, <<"M", "o", "n", "g", "o">>)
               THEN DbOutcome(Reply(200, "array", <<>>), ms, k)
               ELSE DbOutcome(Reply(500, "error", <<>>), ms, k)
     ELSE IF k.conn.cachedDb = "null" \/ k.conn.readyState # Connected
          THEN DbOutcome(Reply(200, "array", <<>>), ms, k)
     ELSE IF ~Completes(k.conn)
          THEN IF Includes(MongoNetworkError, <<"M", "o", "n", "g", "o">>)
               THEN DbOutcome(Reply(200, "array", <<>>), ms, k)
               ELSE DbOutcome(Reply(500, "error", <<>>), ms, k)
     ELSE DbOutcome(Reply(200, "array", JSONList(Limit(sorted, ListLimit))), ms, k)

\* the validators of messageSchema.text on a trimmed string
SchemaAccepts(s) == Len(s) >= MinTextLength /\ Len(s) <= MaxTextLength

\* app.post('/api/messages')
PostMessage(ms, c, uri, outcome, text, now, oid) ==
  LET k == ConnectDB(c, uri, outcome)
  IN IF ~uri THEN DbOutcome(Reply(503, "error", <<>>), ms, Connect(FALSE, <<>>, c, FALSE))
     ELSE IF k.threw
          THEN IF k.name = ValidationError
               THEN DbOutcome(Reply(400, "error", <<>>), ms, k)
               ELSE DbOutcome(Reply(500, "error", <<>>), ms, k)
     ELSE IF k.conn.cachedDb = "null" \/ k.conn.readyState # Connected
          THEN DbOutcome(Reply(503, "error", <<>>), ms, k)
     ELSE IF ~Truthy(text) \/ TypeOf(text) # "string" \/ Len(Trim(text.v)) = 0
          THEN DbOutcome(Reply(400, "error", <<>>), ms, k)
     ELSE IF ~SchemaAccepts(Trim(Trim(text.v)))
          THEN DbOutcome(Reply(400, "error", <<>>), ms, k)
     ELSE IF ~Completes(k.conn)
          THEN DbOutcome(Reply(500, "error", <<>>), ms, k)
     ELSE LET savedMessage == Document(ObjectId(oid), Str(Trim(Trim(text.v))), now)
          IN DbOutcome(Reply(201, "object", <<ToJSON(savedMessage)>>), Append(ms, savedMessage), k)

\* app.delete('/api/messages/:id'): findByIdAndDelete removes the first document of
\* the _id the parameter is cast to, if any
DeleteMessage(ms, c, uri, outcome, param) ==
  LET k == ConnectDB(c, uri, outcome)
  IN IF ~uri THEN DbOutcome(Reply(503, "error", <<>>), ms, Connect(FALSE, <<>>, c, FALSE))
     ELSE IF k.threw THEN DbOutcome(Reply(500, "error", <<>>), ms, k)
     ELSE IF k.conn.cachedDb = "null" \/ k.conn.readyState # Connected
          THEN DbOutcome(Reply(503, "error", <<>>), ms, k)
     ELSE IF ~IsValidParam[param] THEN DbOutcome(Reply(400, "error", <<>>), ms, k)
     ELSE IF ~Completes(k.conn) THEN DbOutcome(Reply(500, "error", <<>>), ms, k)
     ELSE LET result == FindIndex(ms, "_id", CastParam[param])
          IN IF result = -1
             THEN DbOutcome(Reply(404, "error", <<>>), ms, k)
             ELSE DbOutcome(Reply(200, "ok", <<>>), Splice(ms, result), k)

\* initializeDatabase: connect and, when the collection is empty, create the
\* welcome message; a failure is logged and nothing else
InitializeDatabase(ms, c, uri, outcome, now, oid) ==
  LET k == ConnectDB(c, uri, outcome)
  IN IF ~uri THEN DbOutcome(Reply(0, "none", <<>>), ms, Connect(FALSE, <<>>, c, FALSE))
     ELSE IF k.threw \/ ~Completes(k.conn) \/ Len(ms) # 0
          THEN DbOutcome(Reply(0, "none", <<>>), ms, k)
     ELSE DbOutcome(Reply(0, "none", <<>>), <<Document(ObjectId(oid), Str(Trim(WelcomeAtlas)), now)>>, k)

\* ------------------------------------------------------------------ inputs
LongText(n) == Rep("a", n)

\* req.body.text: absent, empty, blank, padded, not a string, at and over the length limit
Texts ==
  { Undefined, Str(<<>>), Str(<<" ">>), Str(<<" ", "a", " ">>), Num(7),
    Str(<<" ">> \o LongText(MaxTextLength) \o <<" ">>), Str(LongText(MaxTextLength + 1)) }

\* req.params.id of the in-memory variants: the identifiers in use, an
\* identifier followed by letters, a hexadecimal spelling, no number at all,
\* and what a client sends that finds no id field
Params000 ==
  {NumToStr(k) : k \in 1..(2 + MaxCreates)}
    \cup { <<"1", "a", "b", "c">>, <<"0", "x", "2">>, <<"x">> }
Params002 ==
  {NumToStr(k) : k \in 1..2} \cup {NumToStr(Epoch + k) : k \in 0..MaxTicks}
    \cup { WireId(Undefined) }

\* ----------------------------------------------------------------- history
NoRequest ==
  [op |-> "none", arg |-> Undefined, status |-> 0, kind |-> "none", body |-> <<>>,
   attempted |-> FALSE, unavailable |-> FALSE, named |-> FALSE, changed |-> FALSE, delta |-> 0]

\* the exchange just completed: the request (op, arg) and the response (status,
\* kind, body) of handler outcome r, and what the handler did:
\*   attempted    it called mongoose.connect
\*   unavailable  connectDB left it without a live connection
\*   named        the request's id parameter was the identifier of a stored message
\*   changed      it changed the store
\*   delta        by how much the number of stored messages grew
Exchange(op, arg, r) ==
  [op |-> op, arg |-> arg, status |-> r.reply.status, kind |-> r.reply.kind,
   body |-> r.reply.body, attempted |-> r.attempted, unavailable |-> r.unavailable,
   named |-> (op = "delete" /\ \E i \in 1..Len(messages) : WireId(IdOf(messages[i])) = arg.v),
   changed |-> (r.store # messages),
   delta |-> Len(r.store) - Len(messages)]

CanCreate == Len(created) < MaxCreates

ObserveList(r) ==
  /\ last' = Exchange("list", Undefined, r)
  /\ UNCHANGED << issued, created, removed, anyCreate >>

ObserveCreate(text, r, newIds) ==
  /\ last' = Exchange("create", text, r)
  /\ issued' = issued \o newIds
  /\ created' = created \o newIds
  /\ anyCreate' = TRUE
  /\ UNCHANGED removed

ObserveDelete(param, r) ==
  /\ last' = Exchange("delete", Str(param), r)
  /\ removed' = IF r.reply.status = 200
                THEN removed \cup {created[i] : i \in {j \in 1..Len(created) : WireId(created[j]) = param}}
                ELSE removed
  /\ UNCHANGED << issued, created, anyCreate >>

\* ----------------------------------------------------------------- actions
\* how many invocations of connectDB run at once
MaxCalls == 3

\* nothing has come through the middleware yet
NoAnswer ==
  [origin |-> Undefined, op |-> "none", status |-> 0, ran |-> FALSE, text |-> <<>>, thrown |-> <<>>]

\* the error state null
NoError == [op |-> "none", status |-> 0]

\* no component is running
NoApp ==
  /\ appMessages = <<>>
  /\ draft = <<>>
  /\ loading = TRUE
  /\ error = NoError
  /\ inflight = <<>>
  /\ course = [failed |-> FALSE]

Init ==
  /\ variant \in Variants
  /\ MONGODB_URI \in (IF variant = "server_js" THEN BOOLEAN ELSE {TRUE})
  /\ clock = Epoch
  /\ messages = Seeds(variant, clock)
  /\ nextOid = OidBase
  /\ cachedDb = "null"
  /\ readyState = 0
  /\ isConnected = FALSE
  /\ initialized = FALSE
  /\ last = NoRequest
  /\ issued = [i \in 1..Len(messages) |-> IdOf(messages[i])]
  /\ created = <<>>
  /\ removed = {}
  /\ anyCreate = FALSE
  /\ NoApp
  /\ calls = [i \in 1..MaxCalls |-> "idle"]
  /\ FRONTEND_URL = Undefined
  /\ answered = NoAnswer

\* a millisecond passes
Tick ==
  /\ clock < Epoch + MaxTicks
  /\ clock' = clock + 1
  /\ UNCHANGED << variant, MONGODB_URI, store, connection, initialized, last, issued, created,
                  removed, anyCreate >>
  /\ UNCHANGED outside

List000 ==
  /\ variant = "part_000"
  /\ LET r == Get000(messages)
     IN messages' = r.store /\ ObserveList(r)
  /\ UNCHANGED << variant, MONGODB_URI, clock, nextOid, connection, initialized >>
  /\ UNCHANGED outside

Create000 ==
  /\ variant = "part_000"
  /\ \E text \in Texts :
       LET r == Post000(messages, text, clock)
       IN /\ r.reply.status = 201 => CanCreate
          /\ messages' = r.store
          /\ ObserveCreate(text, r, [i \in 1..Len(r.reply.body) |-> r.reply.body[i].id])
  /\ UNCHANGED << variant, MONGODB_URI, clock, nextOid, connection, initialized >>
  /\ UNCHANGED outside

Remove000 ==
  /\ variant = "part_000"
  /\ \E param \in Params000 :
       LET r == Delete000(messages, param)
       IN messages' = r.store /\ ObserveDelete(param, r)
  /\ UNCHANGED << variant, MONGODB_URI, clock, nextOid, connection, initialized >>
  /\ UNCHANGED outside

List002 ==
  /\ variant = "part_002"
  /\ LET r == Get002(messages)
     IN messages' = r.store /\ ObserveList(r)
  /\ UNCHANGED << variant, MONGODB_URI, clock, nextOid, connection, initialized >>
  /\ UNCHANGED outside

Create002 ==
  /\ variant = "part_002"
  /\ \E text \in Texts :
       LET r == Post002(messages, text, clock)
       IN /\ r.reply.status = 201 => CanCreate
          /\ messages' = r.store
          /\ ObserveCreate(text, r, [i \in 1..Len(r.reply.body) |-> r.reply.body[i]["_id"]])
  /\ UNCHANGED << variant, MONGODB_URI, clock, nextOid, connection, initialized >>
  /\ UNCHANGED outside

Remove002 ==
  /\ variant = "part_002"
  /\ \E param \in Params002 :
       LET r == Delete002(messages, param)
       IN messages' = r.store /\ ObserveDelete(param, r)
  /\ UNCHANGED << variant, MONGODB_URI, clock, nextOid, connection, initialized >>
  /\ UNCHANGED outside

\* the connection state of this process
conn == Conn(cachedDb, readyState, isConnected)

\* the connection state a handler leaves
SetConnection(c) ==
  /\ cachedDb' = c.cachedDb
  /\ readyState' = c.readyState
  /\ isConnected' = c.isConnected

List001 ==
  /\ variant = "part_001"
  /\ \E outcome \in ConnectOutcomes, sorted \in SortDescending(messages) :
       LET r == Get001(messages, conn, outcome, sorted)
       IN (r.attempted \/ outcome.ok) /\ messages' = r.store /\ SetConnection(r.conn) /\ ObserveList(r)
  /\ UNCHANGED << variant, MONGODB_URI, clock, nextOid, initialized >>
  /\ UNCHANGED outside

Create001 ==
  /\ variant = "part_001"
  /\ \E outcome \in ConnectOutcomes, text \in Texts :
       LET r == Post001(messages, conn, outcome, text, clock, nextOid)
       IN /\ r.attempted \/ outcome.ok
          /\ r.reply.status = 201 => CanCreate
          /\ messages' = r.store
          /\ nextOid' = IF r.reply.status = 201 THEN nextOid + 1 ELSE nextOid
          /\ SetConnection(r.conn)
          /\ ObserveCreate(text, r,
                           IF r.reply.status = 201 THEN <<ObjectId(nextOid)>> ELSE <<>>)
  /\ UNCHANGED << variant, MONGODB_URI, clock, initialized >>
  /\ UNCHANGED outside

Remove001 ==
  /\ variant = "part_001"
  /\ \E outcome \in ConnectOutcomes, param \in ParamsMongo :
       LET r == Delete001(messages, conn, outcome, param)
       IN (r.attempted \/ outcome.ok) /\ messages' = r.store /\ SetConnection(r.conn) /\ ObserveDelete(param, r)
  /\ UNCHANGED << variant, MONGODB_URI, clock, nextOid, initialized >>
  /\ UNCHANGED outside

ListMessages ==
  /\ variant = "server_js"
  /\ \E outcome \in ConnectOutcomes, sorted \in SortDescending(messages) :
       LET r == GetMessages(messages, conn, MONGODB_URI, outcome, sorted)
       IN (r.attempted \/ outcome.ok) /\ messages' = r.store /\ SetConnection(r.conn) /\ ObserveList(r)
  /\ UNCHANGED << variant, MONGODB_URI, clock, nextOid, initialized >>
  /\ UNCHANGED outside

CreateMessage ==
  /\ variant = "server_js"
  /\ \E outcome \in ConnectOutcomes, text \in Texts :
       LET r == PostMessage(messages, conn, MONGODB_URI, outcome, text, clock, nextOid)
       IN /\ r.attempted \/ outcome.ok
          /\ r.reply.status = 201 => CanCreate
          /\ messages' = r.store
          /\ nextOid' = IF r.reply.status = 201 THEN nextOid + 1 ELSE nextOid
          /\ SetConnection(r.conn)
          /\ ObserveCreate(text, r,
                           IF r.reply.status = 201 THEN <<ObjectId(nextOid)>> ELSE <<>>)
  /\ UNCHANGED << variant, MONGODB_URI, clock, initialized >>
  /\ UNCHANGED outside

RemoveMessage ==
  /\ variant = "server_js"
  /\ \E outcome \in ConnectOutcomes, param \in ParamsMongo :
       LET r == DeleteMessage(messages, conn, MONGODB_URI, outcome, param)
       IN (r.attempted \/ outcome.ok) /\ messages' = r.store /\ SetConnection(r.conn) /\ ObserveDelete(param, r)
  /\ UNCHANGED << variant, MONGODB_URI, clock, nextOid, initialized >>
  /\ UNCHANGED outside

\* initializeDatabase() at start-up
Initialize ==
  /\ variant = "server_js"
  /\ ~initialized
  /\ initialized' = TRUE
  /\ \E outcome \in ConnectOutcomes :
       LET r == InitializeDatabase(messages, conn, MONGODB_URI, outcome, clock, nextOid)
       IN /\ r.attempted \/ outcome.ok
          /\ messages' = r.store
          /\ nextOid' = IF Len(r.store) > Len(messages) THEN nextOid + 1 ELSE nextOid
          /\ issued' = IF Len(r.store) > Len(messages) THEN issued \o <<ObjectId(nextOid)>> ELSE issued
          /\ SetConnection(r.conn)
  /\ UNCHANGED << variant, MONGODB_URI, clock, last, created, removed, anyCreate >>
  /\ UNCHANGED outside

\* mongoose.connection emits 'disconnected': the connection is gone, and the
\* handler connectDB registered empties the cache
OnDisconnected ==
  /\ variant \in Mongo
  /\ readyState = Connected
  /\ readyState' = 0
  /\ cachedDb' = "null"
  /\ UNCHANGED << variant, MONGODB_URI, store, clock, isConnected, initialized, last, issued,
                  created, removed, anyCreate >>
  /\ UNCHANGED outside

\* mongoose.connection emits 'error': the handler connectDB registered empties the cache
OnError ==
  /\ variant = "server_js"
  /\ cachedDb # "null"
  /\ cachedDb' = "null"
  /\ UNCHANGED << variant, MONGODB_URI, store, clock, readyState, isConnected, initialized, last,
                  issued, created, removed, anyCreate >>
  /\ UNCHANGED outside

Next ==
  \/ Tick
  \/ List000 \/ Create000 \/ Remove000
  \/ List002 \/ Create002 \/ Remove002
  \/ List001 \/ Create001 \/ Remove001
  \/ ListMessages \/ CreateMessage \/ RemoveMessage
  \/ Initialize \/ OnDisconnected \/ OnError

Spec == Init /\ [][Next]_vars


\* ------------------------------------------------------------------ App.jsx
MaxInFlight == 2

\* e.target.value: what the user types into the input
Drafts == { <<>>, <<" ">>, <<"a">>, <<" ", "b">> }

\* the state of the component: messages, newMessage, loading, error
AppState(ms, text, l, e) == [messages |-> ms, newMessage |-> text, loading |-> l, error |-> e]

appState == AppState(appMessages, draft, loading, error)

\* a request a handler of the component has sent: the messages of the render
\* that created the handler (its closure), the id and the text it sends, and
\* the server's response once there is one
Pending(op, id, text, closure) ==
  [op |-> op, id |-> id, text |-> text, messages |-> closure,
   stage |-> "sent", status |-> 0, body |-> <<>>]

\* response.ok
ResponseOk(status) == status >= 200 /\ status <= 299

\* err.message: which request failed, and the status it failed with (0 when
\* fetch itself rejected)
Failure(op, status) == [op |-> op, status |-> status]

\* fetchMessages without its finally block: a failure leaves loading set
FetchMessagesNoFinally(a, req, arrived) ==
  IF arrived /\ ResponseOk(req.status)
  THEN AppState(req.body, a.newMessage, FALSE, NoError)
  ELSE AppState(a.messages, a.newMessage, a.loading,
                Failure("list", IF arrived THEN req.status ELSE 0))

\* fetchMessages once its fetch has settled; arrived says a response came
\* back, otherwise fetch rejected
FetchMessagesSettled(a, req, arrived) ==
  IF arrived /\ ResponseOk(req.status)
  THEN AppState(req.body, a.newMessage, FALSE, NoError)
  ELSE AppState(a.messages, a.newMessage, FALSE,
                Failure("list", IF arrived THEN req.status ELSE 0))

\* handleAddMessage appending and clearing the draft before it looks at the response
HandleAddMessageOptimistic(a, req, arrived) ==
  IF arrived /\ ResponseOk(req.status)
  THEN AppState(req.messages \o req.body, <<>>, a.loading, a.error)
  ELSE AppState(Append(a.messages, [text |-> req.text]), <<>>, a.loading,
                Failure("create", IF arrived THEN req.status ELSE 0))

\* handleAddMessage once its fetch has settled
HandleAddMessageSettled(a, req, arrived) ==
  IF arrived /\ ResponseOk(req.status)
  THEN AppState(req.messages \o req.body, <<>>, a.loading, a.error)
  ELSE AppState(a.messages, a.newMessage, a.loading,
                Failure("create", IF arrived THEN req.status ELSE 0))

\* message.id, undefined when the object has no such field
MessageId(m) == IF "id" \in DOMAIN m THEN m.id ELSE Undefined

\* messages.filter(msg => msg.id !== id)
FilterOut(ms, id) == SelectSeq(ms, LAMBDA m : ~StrictEq(MessageId(m), id))

\* handleDeleteMessage once its fetch has settled
HandleDeleteMessageSettled(a, req, arrived) ==
  IF arrived /\ ResponseOk(req.status)
  THEN AppState(FilterOut(req.messages, req.id), a.newMessage, a.loading, a.error)
  ELSE AppState(a.messages, a.newMessage, a.loading,
                Failure("delete", IF arrived THEN req.status ELSE 0))

\* the continuation of the handler that sent req
Settled(a, req, arrived) ==
  CASE req.op = "list" -> FetchMessagesSettled(a, req, arrived)
    [] req.op = "create" -> HandleAddMessageSettled(a, req, arrived)
    [] req.op = "delete" -> HandleDeleteMessageSettled(a, req, arrived)

SetApp(a) ==
  /\ appMessages' = a.messages
  /\ draft' = a.newMessage
  /\ loading' = a.loading
  /\ error' = a.error

\* the server's handler of the request, in the variant this process runs
Handle(req, outcome, sorted) ==
  CASE variant = "part_000" ->
         ( CASE req.op = "list" -> Get000(messages)
             [] req.op = "create" -> Post000(messages, req.text, clock)
             [] req.op = "delete" -> Delete000(messages, WireId(req.id)) )
    [] variant = "part_002" ->
         ( CASE req.op = "list" -> Get002(messages)
             [] req.op = "create" -> Post002(messages, req.text, clock)
             [] req.op = "delete" -> Delete002(messages, WireId(req.id)) )
    [] variant = "part_001" ->
         ( CASE req.op = "list" -> Get001(messages, conn, outcome, sorted)
             [] req.op = "create" -> Post001(messages, conn, outcome, req.text, clock, nextOid)
             [] req.op = "delete" -> Delete001(messages, conn, outcome, WireId(req.id)) )
    [] variant = "server_js" ->
         ( CASE req.op = "list" -> GetMessages(messages, conn, MONGODB_URI, outcome, sorted)
             [] req.op = "create" ->
                  PostMessage(messages, conn, MONGODB_URI, outcome, req.text, clock, nextOid)
             [] req.op = "delete" ->
                  DeleteMessage(messages, conn, MONGODB_URI, outcome, WireId(req.id)) )

\* the requests of the component that are on their way
Sent(op) == {i \in 1..Len(inflight) : inflight[i].op = op /\ inflight[i].stage = "sent"}

\* a request joins those in flight
Send(req) ==
  /\ Len(inflight) < MaxInFlight
  /\ inflight' = Append(inflight, req)
  /\ UNCHANGED course

server == << variant, MONGODB_URI, messages, clock, nextOid, cachedDb, readyState, isConnected,
             initialized, last, issued, created, removed, anyCreate, calls, FRONTEND_URL,
             answered >>

\* useEffect on mount: fetchMessages sets loading and sends the list request
Mount ==
  /\ loading
  /\ inflight = <<>>
  /\ Send(Pending("list", Undefined, Undefined, appMessages))
  /\ UNCHANGED << server, appMessages, draft, loading, error >>

\* onChange of the input
Type ==
  /\ ~loading
  /\ \E text \in Drafts : text # draft /\ draft' = text
  /\ UNCHANGED << server, appMessages, loading, error, inflight, course >>

\* onSubmit of the form, handleAddMessage up to its fetch
HandleAddMessage ==
  /\ ~loading
  /\ Len(Trim(draft)) # 0
  /\ Len(created) + Cardinality(Sent("create")) < MaxCreates
  /\ Send(Pending("create", Undefined, Str(draft), appMessages))
  /\ UNCHANGED << server, appMessages, draft, loading, error >>

\* onClick of a message's delete button, handleDeleteMessage up to its fetch
HandleDeleteMessage ==
  /\ ~loading
  /\ \E i \in 1..Len(appMessages) :
       Send(Pending("delete", MessageId(appMessages[i]), Undefined, appMessages))
  /\ UNCHANGED << server, appMessages, draft, loading, error >>

\* onClick of the error banner's button
Dismiss ==
  /\ ~loading
  /\ error # NoError
  /\ error' = NoError
  /\ UNCHANGED << server, appMessages, draft, loading, inflight, course >>

\* the server handles a request that has reached it
Serve ==
  /\ \E i \in 1..Len(inflight), outcome \in ConnectOutcomes, sorted \in SortDescending(messages) :
       LET req == inflight[i]
           r == Handle(req, outcome, sorted)
           done == r.reply.status \in {200, 201}
       IN /\ req.stage = "sent"
          /\ r.attempted \/ outcome.ok
          /\ messages' = r.store
          /\ nextOid' = IF Len(r.store) > Len(messages) THEN nextOid + 1 ELSE nextOid
          /\ SetConnection(IF variant \in Mongo THEN r.conn ELSE conn)
          /\ created' = IF req.op = "create" /\ done THEN Append(created, MessageId(r.reply.body[1]))
                        ELSE created
          /\ removed' = IF req.op = "delete" /\ done THEN removed \cup {req.id} ELSE removed
          /\ inflight' = [inflight EXCEPT ![i] = [req EXCEPT !.stage = "done",
                                                              !.status = r.reply.status,
                                                              !.body = r.reply.body]]
  /\ UNCHANGED << variant, MONGODB_URI, clock, initialized, last, issued, anyCreate,
                  appMessages, draft, loading, error, course, calls, FRONTEND_URL, answered >>

\* the sequence without its i-th element
Without(seq, i) == SubSeq(seq, 1, i - 1) \o SubSeq(seq, i + 1, Len(seq))

\* a response reaches the component: the handler that awaits it continues
Resolve ==
  /\ \E i \in 1..Len(inflight) :
       /\ inflight[i].stage = "done"
       /\ SetApp(Settled(appState, inflight[i], TRUE))
       /\ inflight' = Without(inflight, i)
       /\ course' = [course EXCEPT !.failed = @ \/ ~ResponseOk(inflight[i].status)]
  /\ UNCHANGED server

\* fetch rejects (the request or its response is lost): the handler's catch runs
Reject ==
  /\ \E i \in 1..Len(inflight) :
       /\ SetApp(Settled(appState, inflight[i], FALSE))
       /\ inflight' = Without(inflight, i)
       /\ course' = [course EXCEPT !.failed = TRUE]
  /\ UNCHANGED server

\* the server process starts, initializeDatabase included, before the page is opened
Startup == loading /\ inflight = <<>> /\ Initialize

\* time passes between the start of the server and the opening of the page
Elapse == loading /\ inflight = <<>> /\ Tick

\* the component with up to MaxInFlight requests in flight at once
NextApp ==
  \/ Startup \/ Elapse
  \/ Mount \/ Type \/ HandleAddMessage \/ HandleDeleteMessage \/ Dismiss
  \/ Serve \/ Resolve \/ Reject

SpecApp == Init /\ [][NextApp]_vars

\* the user waits for each response before the next submit or delete
AddAlone == inflight = <<>> /\ HandleAddMessage
DeleteAlone == inflight = <<>> /\ HandleDeleteMessage

NextAppSerial ==
  \/ Startup \/ Elapse
  \/ Mount \/ Type \/ AddAlone \/ DeleteAlone \/ Dismiss
  \/ Serve \/ Resolve \/ Reject

SpecAppSerial == Init /\ [][NextAppSerial]_vars

\* -------------------------------------------------- concurrent connectDB
\* connectDB up to its await: it returns the cached handle, or throws for want
\* of a connection string, or calls mongoose.connect and waits
ConnectDBBegins ==
  /\ \E i \in 1..MaxCalls :
       /\ calls[i] = "idle"
       /\ calls' = [calls EXCEPT ![i] =
                      IF cachedDb # "null" /\ readyState = Connected THEN "returned"
                      ELSE IF ~MONGODB_URI THEN "threw"
                      ELSE "connecting"]
  /\ UNCHANGED << variant, MONGODB_URI, store, clock, connection, initialized, last, issued,
                  created, removed, anyCreate, app, FRONTEND_URL, answered >>

\* mongoose.connect resolves: connectDB caches the handle and returns it
ConnectResolves ==
  /\ \E i \in 1..MaxCalls :
       /\ calls[i] = "connecting"
       /\ calls' = [calls EXCEPT ![i] = "connected"]
  /\ cachedDb' = "mongoose"
  /\ readyState' = Connected
  /\ UNCHANGED << variant, MONGODB_URI, store, clock, isConnected, initialized, last, issued,
                  created, removed, anyCreate, app, FRONTEND_URL, answered >>

\* mongoose.connect rejects: the catch block empties the cache and rethrows;
\* the connection another invocation opened may stay up or not
ConnectRejects ==
  /\ \E i \in 1..MaxCalls :
       /\ calls[i] = "connecting"
       /\ calls' = [calls EXCEPT ![i] = "threw"]
  /\ cachedDb' = "null"
  /\ readyState' \in {readyState, 0}
  /\ UNCHANGED << variant, MONGODB_URI, store, clock, isConnected, initialized, last, issued,
                  created, removed, anyCreate, app, FRONTEND_URL, answered >>

InitRace == Init /\ variant = "server_js"

NextRace == ConnectDBBegins \/ ConnectResolves \/ ConnectRejects

SpecRace == InitRace /\ [][NextRace]_vars

\* C18: when all concurrent invocations of connectDB have finished and one of
\* them connected, the cache holds a handle; and whenever a connection that an
\* invocation opened is live, the failure of another invocation has not left
\* the cache empty.
C18_RaceKeepsCache ==
  LET connected == \E i \in 1..MaxCalls : calls[i] = "connected"
      finished == \A i \in 1..MaxCalls : calls[i] \in {"returned", "connected", "threw"}
  IN /\ (finished /\ connected /\ readyState = Connected) => cachedDb # "null"
     /\ (connected /\ readyState = Connected) =>
          (cachedDb # "null" \/ \A i \in 1..MaxCalls : calls[i] # "threw")

\* ------------------------------------------ server_js behind its middleware
VercelPattern == <<"h", "t", "t", "p", "s", ":", "/", "/", "*", ".", "v", "e", "r", "c", "e", "l", ".", "a", "p", "p">>
VercelSuffix == <<".", "v", "e", "r", "c", "e", "l", ".", "a", "p", "p">>
BoardOrigin == <<"h", "t", "t", "p", "s", ":", "/", "/", "b", "o", "a", "r", "d", ".", "e", "x", "a", "m", "p", "l", "e">>

\* req.headers.origin: none, empty, deployments under the hosting domain (one
\* of them over http), the hosting domain itself, the configured front end,
\* and origins that only resemble an allowed one
Origins ==
  { Undefined, Str(<<>>), Str(<<"h", "t", "t", "p", "s", ":", "/", "/", "a", "p", "p", ".", "v", "e", "r", "c", "e", "l", ".", "a", "p", "p">>), Str(<<"h", "t", "t", "p", ":", "/", "/", "a", "p", "p", ".", "v", "e", "r", "c", "e", "l", ".", "a", "p", "p">>), Str(<<"h", "t", "t", "p", "s", ":", "/", "/", "v", "e", "r", "c", "e", "l", ".", "a", "p", "p">>), Str(BoardOrigin),
    Str(<<"h", "t", "t", "p", "s", ":", "/", "/", "e", "v", "i", "l", ".", "e", "x", "a", "m", "p", "l", "e">>), Str(BoardOrigin \o <<".", "e", "v", "i", "l", ".", "e", "x", "a", "m", "p", "l", "e">>), Str(VercelPattern) }

\* String.prototype.endsWith
EndsWith(s, suffix) ==
  Len(suffix) <= Len(s) /\ SubSeq(s, Len(s) - Len(suffix) + 1, Len(s)) = suffix

\* [frontendUrl, 'https://*.vercel.app'].filter(Boolean)
AllowedOrigins(frontendUrl) ==
  (IF Truthy(frontendUrl) THEN <<frontendUrl.v>> ELSE <<>>) \o <<VercelPattern>>

NotAllowedByCors(origin) == <<"O", "r", "i", "g", "i", "n", " ">> \o origin \o <<" ", "n", "o", "t", " ", "a", "l", "l", "o", "w", "e", "d", " ", "b", "y", " ", "C", "O", "R", "S">>

\* corsOptions.origin admitting every origin
CorsOriginOpen(origin, frontendUrl) == [allowed |-> TRUE, message |-> <<>>]

\* corsOptions.origin: whether the callback lets the request through, and the
\* message of the error it passes on otherwise
CorsOrigin(origin, frontendUrl) ==
  LET allowedOrigins == AllowedOrigins(frontendUrl)
  IN IF ~Truthy(origin) THEN [allowed |-> TRUE, message |-> <<>>]
     ELSE IF \E i \in 1..Len(allowedOrigins) :
               \/ origin.v = allowedOrigins[i]
               \/ allowedOrigins[i] = VercelPattern /\ EndsWith(origin.v, VercelSuffix)
          THEN [allowed |-> TRUE, message |-> <<>>]
          ELSE [allowed |-> FALSE, message |-> NotAllowedByCors(origin.v)]

CorsText == <<"C", "O", "R", "S">>
CorsErrorText == <<"C", "O", "R", "S", " ", "E", "r", "r", "o", "r">>
OriginText == <<"O", "r", "i", "g", "i", "n", " ">>
IsNotAllowedText == <<" ", "i", "s", " ", "n", "o", "t", " ", "a", "l", "l", "o", "w", "e", "d">>
InternalServerErrorText == <<"I", "n", "t", "e", "r", "n", "a", "l", " ", "S", "e", "r", "v", "e", "r", " ", "E", "r", "r", "o", "r">>

\* the global error handler: the status and the texts of its envelope
GlobalErrorHandler(message, origin) ==
  IF Includes(message, CorsText)
  THEN [status |-> 403, text |-> CorsErrorText \o OriginText \o WireId(origin) \o IsNotAllowedText]
  ELSE [status |-> 500, text |-> InternalServerErrorText]

\* err.message of a rejected mongoose.connect, and of a document the schema rejects
ConnectMessage(outcome) ==
  IF outcome.name = PlainError THEN <<"q", "u", "e", "r", "y", "S", "r", "v", " ", "E", "N", "O", "T", "F", "O", "U", "N", "D">> ELSE <<"c", "o", "n", "n", "e", "c", "t", " ", "E", "C", "O", "N", "N", "R", "E", "F", "U", "S", "E", "D">>
ValidationMessage == <<"M", "e", "s", "s", "a", "g", "e", " ", "v", "a", "l", "i", "d", "a", "t", "i", "o", "n", " ", "f", "a", "i", "l", "e", "d">>

UriNotSetText == <<"M", "O", "N", "G", "O", "D", "B", "_", "U", "R", "I", " ", "e", "n", "v", "i", "r", "o", "n", "m", "e", "n", "t", " ", "v", "a", "r", "i", "a", "b", "l", "e", " ", "i", "s", " ", "n", "o", "t", " ", "s", "e", "t">>
NoConnectionText == <<"F", "a", "i", "l", "e", "d", " ", "t", "o", " ", "e", "s", "t", "a", "b", "l", "i", "s", "h", " ", "d", "a", "t", "a", "b", "a", "s", "e", " ", "c", "o", "n", "n", "e", "c", "t", "i", "o", "n">>
NotConfiguredText == <<"D", "a", "t", "a", "b", "a", "s", "e", " ", "n", "o", "t", " ", "c", "o", "n", "f", "i", "g", "u", "r", "e", "d">>
UnavailableText == <<"D", "a", "t", "a", "b", "a", "s", "e", " ", "u", "n", "a", "v", "a", "i", "l", "a", "b", "l", "e">>
FetchFailedText == <<"F", "a", "i", "l", "e", "d", " ", "t", "o", " ", "f", "e", "t", "c", "h", " ", "m", "e", "s", "s", "a", "g", "e", "s">>
AddFailedText == <<"F", "a", "i", "l", "e", "d", " ", "t", "o", " ", "a", "d", "d", " ", "m", "e", "s", "s", "a", "g", "e">>
DeleteFailedText == <<"F", "a", "i", "l", "e", "d", " ", "t", "o", " ", "d", "e", "l", "e", "t", "e", " ", "m", "e", "s", "s", "a", "g", "e">>
InvalidMessageText == <<"I", "n", "v", "a", "l", "i", "d", " ", "m", "e", "s", "s", "a", "g", "e">>
ValidationErrorText == <<"V", "a", "l", "i", "d", "a", "t", "i", "o", "n", " ", "e", "r", "r", "o", "r">>
InvalidIdText == <<"I", "n", "v", "a", "l", "i", "d", " ", "m", "e", "s", "s", "a", "g", "e", " ", "I", "D">>
NotFoundText == <<"M", "e", "s", "s", "a", "g", "e", " ", "n", "o", "t", " ", "f", "o", "u", "n", "d">>

\* app.get('/api/health'): the status, database.error, the message of the
\* exception it caught, and the connection it leaves
Health(c, uri, outcome) ==
  LET k == ConnectDB(c, uri, outcome)
  IN IF ~uri
     THEN [status |-> 503, text |-> UriNotSetText, thrown |-> <<>>, conn |-> c, attempted |-> FALSE]
     ELSE IF k.threw
          THEN [status |-> 503, text |-> ConnectMessage(outcome), thrown |-> ConnectMessage(outcome),
                conn |-> k.conn, attempted |-> k.attempted]
     ELSE IF k.conn.cachedDb # "null" /\ k.conn.readyState = Connected
          THEN [status |-> 200, text |-> <<>>, thrown |-> <<>>, conn |-> k.conn,
                attempted |-> k.attempted]
          ELSE [status |-> 503, text |-> NoConnectionText, thrown |-> <<>>, conn |-> k.conn,
                attempted |-> k.attempted]

\* save() threw a ValidationError: the handler's own test passed the text and
\* the schema did not
SchemaRejects(text) ==
  /\ Truthy(text)
  /\ TypeOf(text) = "string"
  /\ Len(Trim(text.v)) # 0
  /\ ~SchemaAccepts(Trim(Trim(text.v)))

\* the message of the exception a route handler caught while it produced r
Thrown(req, r, outcome) ==
  IF r.attempted /\ r.unavailable THEN ConnectMessage(outcome)
  ELSE IF req.op = "create" /\ r.reply.status = 400 /\ SchemaRejects(req.text) THEN ValidationMessage
  ELSE <<>>

\* the texts of the envelope a route handler sends with r
Envelope(req, r, outcome) ==
  CASE r.reply.status \in {200, 201} -> <<>>
    [] r.reply.status = 503 -> IF r.attempted THEN UnavailableText ELSE NotConfiguredText
    [] r.reply.status = 404 -> NotFoundText
    [] r.reply.status = 400 /\ req.op = "delete" -> InvalidIdText
    [] r.reply.status = 400 /\ req.op = "create" ->
         IF SchemaRejects(req.text) THEN ValidationErrorText \o Thrown(req, r, outcome)
         ELSE InvalidMessageText
    [] r.reply.status = 500 ->
         ( CASE req.op = "list" -> FetchFailedText
             [] req.op = "create" -> AddFailedText
             [] req.op = "delete" -> DeleteFailedText )

\* req.body.text and req.params.id of the requests that come through the middleware
ApiTexts == { Str(<<"a">>), Str(LongText(MaxTextLength + 1)) }
ApiIds == { Undefined } \cup { IdOf(messages[i]) : i \in 1..Len(messages) }
ApiRequests ==
  { Pending("list", Undefined, Undefined, <<>>) }
    \cup { Pending("create", Undefined, text, <<>>) : text \in ApiTexts }
    \cup { Pending("delete", id, Undefined, <<>>) : id \in ApiIds }

\* cors(corsOptions) stops the request: the global error handler answers it
\* and no route handler runs
Blocked(origin, op, gate) ==
  LET e == GlobalErrorHandler(gate.message, origin)
  IN /\ answered' = [origin |-> origin, op |-> op, status |-> e.status, ran |-> FALSE,
                     text |-> e.text, thrown |-> gate.message]
     /\ UNCHANGED << store, connection, created >>

\* GET /api/health
ApiHealth ==
  /\ \E origin \in Origins, outcome \in ConnectOutcomes :
       LET gate == CorsOrigin(origin, FRONTEND_URL)
           h == Health(conn, MONGODB_URI, outcome)
       IN IF ~gate.allowed THEN Blocked(origin, "health", gate)
          ELSE /\ h.attempted \/ outcome.ok
               /\ SetConnection(h.conn)
               /\ answered' = [origin |-> origin, op |-> "health", status |-> h.status,
                               ran |-> TRUE, text |-> h.text, thrown |-> h.thrown]
               /\ UNCHANGED << store, created >>
  /\ UNCHANGED << variant, MONGODB_URI, clock, initialized, last, issued, removed, anyCreate, app,
                  calls, FRONTEND_URL >>

\* GET, POST and DELETE /api/messages
ApiMessages ==
  /\ \E origin \in Origins, req \in ApiRequests :
       LET gate == CorsOrigin(origin, FRONTEND_URL)
           op == req.op
       IN IF ~gate.allowed THEN Blocked(origin, op, gate)
          ELSE \E outcome \in ConnectOutcomes,
                  sorted \in (IF op = "list" THEN SortDescending(messages) ELSE {messages}) :
               LET r == Handle(req, outcome, sorted)
               IN
               /\ r.attempted \/ outcome.ok
               /\ r.reply.status = 201 => CanCreate
               /\ messages' = r.store
               /\ nextOid' = IF Len(r.store) > Len(messages) THEN nextOid + 1 ELSE nextOid
               /\ created' = IF r.reply.status = 201 THEN Append(created, IdOf(r.store[Len(r.store)]))
                             ELSE created
               /\ SetConnection(r.conn)
               /\ answered' = [origin |-> origin, op |-> op, status |-> r.reply.status,
                               ran |-> TRUE, text |-> Envelope(req, r, outcome),
                               thrown |-> Thrown(req, r, outcome)]
  /\ UNCHANGED << variant, MONGODB_URI, clock, initialized, last, issued, removed, anyCreate, app,
                  calls, FRONTEND_URL >>

InitApi ==
  /\ variant = "server_js"
  /\ MONGODB_URI \in BOOLEAN
  /\ clock = Epoch
  /\ messages = Seeds(variant, clock)
  /\ nextOid = OidBase
  /\ cachedDb = "null"
  /\ readyState = 0
  /\ isConnected = FALSE
  /\ initialized = FALSE
  /\ last = NoRequest
  /\ issued = <<>>
  /\ created = <<>>
  /\ removed = {}
  /\ anyCreate = FALSE
  /\ NoApp
  /\ calls = [i \in 1..MaxCalls |-> "idle"]
  /\ FRONTEND_URL \in {Undefined, Str(BoardOrigin)}
  /\ answered = NoAnswer

NextApi == Initialize \/ ApiHealth \/ ApiMessages \/ OnDisconnected

SpecApi == InitApi /\ [][NextApi]_vars

\* ================================================================== claims
Succeeded == last.status \in {200, 201}

\* App.jsx: the id parameter of the delete request for a displayed message, `${message.id}`
ClientParam(m) == IF "id" \in DOMAIN m THEN WireId(m.id) ELSE WireId(Undefined)

\* C1: every identifier a store assigns differs from every identifier it
\* assigned before (seeded and deleted messages included), so no two stored
\* messages share an identifier.
C1_IdsUnique ==
  /\ \A i, j \in 1..Len(issued) : i # j => issued[i] # issued[j]
  /\ \A i, j \in 1..Len(messages) : i # j => IdOf(messages[i]) # IdOf(messages[j])

\* C2: once a message created with identifier X has been deleted by a
\* successful DELETE /api/messages/X, no list response contains a message
\* with identifier X.
C2_DeletedNeverListed ==
  (last.op = "list" /\ Succeeded) =>
    \A i \in 1..Len(last.body) :
      WireId(IdOf(last.body[i])) \notin {WireId(x) : x \in removed}

\* C3: a create request whose text is absent or the empty string is answered
\* 400 in every variant and every configuration and connection state, before
\* any connection is attempted, and the number of stored messages stays the same.
C3_EmptyTextIs400 ==
  (last.op = "create" /\ last.arg \in {Undefined, Str(<<>>)}) =>
    /\ last.status = 400
    /\ ~last.attempted
    /\ last.delta = 0

\* C4: a delete request naming an identifier that no stored message has is
\* answered 404 and leaves the store as it was.
C4_UnknownIdIs404 ==
  (last.op = "delete" /\ ~last.named) => (last.status = 404 /\ ~last.changed)

\* C5 as stated: a list request made before any create request returns an
\* empty sequence with a success status from an in-memory store, and 503 from
\* the database-backed store that has no configuration.
C5_FirstListEmpty ==
  (last.op = "list" /\ ~anyCreate) =>
    /\ variant \in InMemory => (last.status = 200 /\ last.body = <<>>)
    /\ (variant = "server_js" /\ ~MONGODB_URI) => last.status = 503

\* C5 as amended: a list request made before any create request returns, with
\* a success status, the seeded sample messages that are still stored, in
\* their order, from an in-memory store, and 503 from the database-backed
\* store that has no configuration.
C5_FirstListSeeds ==
  (last.op = "list" /\ ~anyCreate) =>
    /\ variant \in InMemory =>
         /\ last.status = 200
         /\ last.kind = "array"
         /\ last.body = JSONList(messages)
         /\ LET seeds == JSONList(Seeds(variant, Epoch))
                Nth(keep, i) == CHOOSE k \in keep : Cardinality({j \in keep : j < k}) = i - 1
            IN \E keep \in SUBSET (1..Len(seeds)) :
                 last.body = [i \in 1..Cardinality(keep) |-> seeds[Nth(keep, i)]]
    /\ (variant = "server_js" /\ ~MONGODB_URI) => last.status = 503

\* the first list request of an in-memory variant returned both seeded messages
C5_Witness ==
  /\ variant \in InMemory
  /\ last.op = "list"
  /\ ~anyCreate
  /\ last.body = JSONList(Seeds(variant, Epoch))

\* C6: with the store configured, a list request that finds no connection
\* (connectDB throws, whatever the error, or leaves no live connection) is
\* answered 200 with an empty array, never with a 5xx status.
C6_ListDegrades ==
  (last.op = "list" /\ variant \in Mongo /\ MONGODB_URI /\ last.unavailable) =>
    (last.status = 200 /\ last.kind = "array" /\ last.body = <<>>)

\* C7: without configuration or without a connection, a create request and a
\* delete request are each answered 503, and the store is unchanged.
C7_WritesAre503 ==
  (last.op \in {"create", "delete"} /\ variant = "server_js" /\ (~MONGODB_URI \/ last.unavailable)) =>
    (last.status = 503 /\ ~last.changed)

\* C8: the text of every stored message is a string equal to its trimmed
\* form, of 1 to 500 characters.
C8_TextTrimmedBounded ==
  \A i \in 1..Len(messages) :
    /\ messages[i].text.t = "string"
    /\ Trim(messages[i].text.v) = messages[i].text.v
    /\ Len(messages[i].text.v) >= 1
    /\ Len(messages[i].text.v) <= 500

\* C9: every successful list response is ordered by timestamp descending and
\* holds at most 100 messages; after a successful create a list has the
\* created message at its front.
C9_ListNewestFirst ==
  /\ (last.op = "list" /\ Succeeded) => (IsDescending(last.body) /\ Len(last.body) <= 100)
  /\ (last.op = "create" /\ Succeeded /\ variant = "part_000") =>
       Get000(messages).reply.body[1] = last.body[1]
  /\ (last.op = "create" /\ Succeeded /\ variant = "part_002") =>
       Get002(messages).reply.body[1] = last.body[1]

\* C10: every message of a create or list response has a field named id, and
\* a delete request with that value deletes exactly that message.
C10_IdFieldAddresses ==
  /\ (last.op \in {"list", "create"} /\ Succeeded) =>
       \A i \in 1..Len(last.body) : "id" \in DOMAIN last.body[i]
  /\ (last.op = "list" /\ variant = "part_000") =>
       \A i \in 1..Len(last.body) :
         Delete000(messages, ClientParam(last.body[i])).store = Splice(messages, i - 1)
  /\ (last.op = "list" /\ variant = "part_002") =>
       \A i \in 1..Len(last.body) :
         Delete002(messages, ClientParam(last.body[i])).store = Splice(messages, i - 1)

\* ------------------------------------------------------- connection claims
\* the process holds a connection it takes for established: server_js's cached
\* handle on a live connection, part_001's flag
HoldsConnection ==
  \/ variant = "server_js" /\ cachedDb # "null" /\ readyState = Connected
  \/ variant = "part_001" /\ isConnected

\* connectDB as called in this state, whatever mongoose.connect would do
ConnectNow(outcome) ==
  IF variant = "part_001" THEN ConnectDB001(conn, outcome) ELSE ConnectDB(conn, MONGODB_URI, outcome)

\* a step that handles a request
Request ==
  \/ List001 \/ Create001 \/ Remove001
  \/ ListMessages \/ CreateMessage \/ RemoveMessage

\* C11: while the process holds a cached, live connection, connectDB returns
\* it and calls mongoose.connect no more; no request and no initialization
\* changes the connection or attempts a new one, so after the attempt that
\* succeeded no further attempt is made until an error or disconnect event.
C11_ConnectOnce ==
  [][HoldsConnection =>
       /\ \A outcome \in ConnectOutcomes : ConnectNow(outcome) = Connect(FALSE, <<>>, conn, FALSE)
       /\ connection' # connection => (OnDisconnected \/ OnError)
       /\ Request => ~last'.attempted]_vars

\* a request was served over the connection an earlier request had established
C11_Witness ==
  /\ HoldsConnection
  /\ last.op = "list"
  /\ last.status = 200
  /\ ~last.attempted
  /\ anyCreate

\* C12: with no connection string configured, connectDB throws its
\* configuration error without calling mongoose.connect and leaves the cache
\* empty, and no request and no start-up initialization has attempted a
\* connection: the cache is empty and the connection is down in every state.
C12_NoConfigNoAttempt ==
  (variant = "server_js" /\ ~MONGODB_URI) =>
    /\ cachedDb = "null"
    /\ readyState = 0
    /\ ~last.attempted
    /\ \A outcome \in ConnectOutcomes :
         ConnectDB(conn, MONGODB_URI, outcome) = Connect(TRUE, PlainError, conn, FALSE)

\* unconfigured, the initialization has run and a create request was answered 503
C12_Witness ==
  /\ variant = "server_js"
  /\ ~MONGODB_URI
  /\ initialized
  /\ last.op = "create"
  /\ last.status = 503

\* the cache of this process is empty
CacheEmpty == cachedDb = "null" /\ ~isConnected

\* C19: a failed connection attempt leaves the cache empty, an error or
\* disconnect event empties it, and whenever the connection is not both cached
\* and live the next connectDB call attempts a new connection.
C19_CacheLifecycle ==
  [][/\ (Request /\ last'.attempted /\ last'.unavailable) => CacheEmpty'
     /\ (OnDisconnected \/ OnError) => CacheEmpty'
     /\ (variant \in Mongo /\ MONGODB_URI /\ (CacheEmpty \/ readyState # Connected)) =>
          \A outcome \in ConnectOutcomes : ConnectNow(outcome).attempted]_vars

\* ------------------------------------------------------------ client claims
\* the only request in flight settles as a failure: fetch rejects, or the
\* response has a status that is not OK
SettlesFailed(op) ==
  /\ Len(inflight) = 1
  /\ inflight[1].op = op
  /\ Reject \/ (Resolve /\ ~ResponseOk(inflight[1].status))

\* C13: when the list request sent on mount fails, loading becomes false,
\* error is set to the description of that failure and messages is still
\* empty; dismissing the banner sets error to null and changes nothing else:
\* not messages, not the draft, and no request is sent.
C13_FetchFailure ==
  [][/\ SettlesFailed("list") =>
          /\ ~loading'
          /\ error' # NoError
          /\ error'.op = "list"
          /\ appMessages' = <<>>
     /\ Dismiss =>
          /\ error' = NoError
          /\ UNCHANGED << appMessages, draft, loading, inflight, server >>]_vars

\* the list request sent on mount was answered 503
C13_Witness ==
  /\ ~loading
  /\ error = Failure("list", 503)
  /\ appMessages = <<>>
  /\ inflight = <<>>

\* C14: a create request that fails sets error and leaves messages and the
\* draft as they were; a delete request that fails sets error and leaves
\* messages as it was; messages changes only when a response with an OK
\* status arrives.
C14_FailureFrames ==
  [][/\ SettlesFailed("create") =>
          /\ error' # NoError
          /\ error'.op = "create"
          /\ UNCHANGED << appMessages, draft >>
     /\ SettlesFailed("delete") =>
          /\ error' # NoError
          /\ error'.op = "delete"
          /\ UNCHANGED appMessages
     /\ appMessages' # appMessages =>
          /\ Resolve
          /\ \E i \in 1..Len(inflight) :
               inflight[i].stage = "done" /\ ResponseOk(inflight[i].status)]_vars

\* a create request failed: the messages and the draft are still there
C14_Witness ==
  /\ error = Failure("create", 0)
  /\ appMessages # <<>>
  /\ Len(Trim(draft)) # 0
  /\ inflight = <<>>

\* C17: once every request has been answered, all of them with success, the
\* component's messages holds every message a create returned whose id no
\* delete removed, and no message whose id a delete removed.
C17_NoLostResponse ==
  (~loading /\ inflight = <<>> /\ ~course.failed) =>
    /\ \A i \in 1..Len(created) :
         created[i] \notin removed =>
           \E j \in 1..Len(appMessages) : MessageId(appMessages[j]) = created[i]
    /\ \A j \in 1..Len(appMessages) : MessageId(appMessages[j]) \notin removed

\* what a list request to the server would return now, the database being reachable
FreshList(sorted) ==
  Handle(Pending("list", Undefined, Undefined, <<>>), [ok |-> TRUE, name |-> <<>>], sorted).reply.body

\* C20: with no request in flight, after a successful initial fetch and
\* successful creates and deletes made one at a time, the component's messages
\* is the sequence a list request would return.
C20_ClientMirrorsServer ==
  (~loading /\ inflight = <<>> /\ ~course.failed) =>
    \E sorted \in SortDescending(messages) : appMessages = FreshList(sorted)

\* ----------------------------------------------------- middleware claims
\* C15: a request without an origin always reaches its route handler; a
\* request whose origin is neither the configured front end nor ends with the
\* suffix of the hosting domain is answered 403 with the CORS envelope, and
\* its route handler does not run.
C15_CorsGate ==
  answered.op # "none" =>
    /\ ~Truthy(answered.origin) => answered.ran
    /\ ( /\ Truthy(answered.origin)
         /\ ~(Truthy(FRONTEND_URL) /\ answered.origin = FRONTEND_URL)
         /\ ~EndsWith(answered.origin.v, VercelSuffix) ) =>
         /\ answered.status = 403
         /\ Includes(answered.text, CorsErrorText)
         /\ ~answered.ran

\* a create request from a foreign origin was answered 403 while the database
\* was connected
C15_Witness ==
  /\ answered.op = "create"
  /\ answered.origin = Str(BoardOrigin \o <<".", "e", "v", "i", "l", ".", "e", "x", "a", "m", "p", "l", "e">>)
  /\ answered.status = 403
  /\ FRONTEND_URL = Str(BoardOrigin)
  /\ readyState = Connected

\* C16: no response contains the message of an exception that was thrown
\* while the request was handled.
C16_NoExceptionText ==
  answered.thrown # <<>> => ~Includes(answered.text, answered.thrown)

\* ---------------------------------------------------------- delete claims
\* the id string of a request is the identifier of a stored message: the
\* decimal spelling of a numeric id, the string itself of a string id, and the
\* 24 hexadecimal digits, of either case, of an ObjectId
Denotes(param, id) ==
  IF id.t = "ObjectId" THEN ToUpper(param) = ToUpper(OidToHex(id.v)) ELSE WireId(id) = param

\* a step that handles a delete request of part_000, part_002 or server.js
DeleteRequest == Remove000 \/ Remove002 \/ RemoveMessage

\* C21: a successful delete request for id X removes exactly one message, one
\* whose identifier is X, and leaves every other stored message and the order
\* of the remaining messages as they were, whatever the route does to the id
\* string before it compares it.
C21_DeleteRemovesNamed ==
  [][(last'.op = "delete" /\ last'.status = 200 /\ DeleteRequest) =>
       \E i \in 1..Len(messages) :
         /\ Denotes(last'.arg.v, IdOf(messages[i]))
         /\ messages' = Splice(messages, i - 1)]_vars

====
